---- MODULE Spec2Model ----
(***************************************************************************)
(* easy-fs VFS layer (easy-fs/src/vfs.rs) over the on-disk inode layout    *)
(* and the bitmap allocator, as a state machine.                           *)
(*                                                                         *)
(* The disk is an inode table, a data area of byte blocks and two bitmaps. *)
(* Every VFS operation of Inode is one atomic action (single caller).      *)
(* Strings are sequences of non-zero bytes; Option<T> is a sequence of     *)
(* length 0 (None) or 1 (Some).                                            *)
(***************************************************************************)
EXTENDS Integers, Sequences, FiniteSets, TLC

VARIABLES
    inode_bitmap,   \* set of allocated inode ids (EasyFileSystem.inode_bitmap)
    data_bitmap,    \* set of allocated data-area bit indices (data_bitmap)
    disk_inodes,    \* inode id -> DiskInode record (the inode area)
    data_blocks,    \* absolute block id -> BLOCK_SZ bytes (the data area)
    dirty,          \* block ids whose cache entry is modified and not yet synced
    last,           \* the last VFS call: operation, arguments, results
    scn,            \* progress of the script create f, link f g, unlink f, unlink g
    pc,             \* task -> the operation it is in and the point it has reached
    fs_lock,        \* holder of the allocator lock (Inode.fs), 0 when free
    ready_queue,    \* TaskManager.ready_queue: the queued tasks, front first
    current,        \* Processor.current: the running task, None in the idle loop
    tcbs,           \* task -> its stride, priority and task_status
    kernel_panicked \* the kernel has aborted

vars == <<inode_bitmap, data_bitmap, disk_inodes, data_blocks, dirty, last, scn,
          pc, fs_lock, ready_queue, current, tcbs, kernel_panicked>>

fs_vars == <<inode_bitmap, data_bitmap, disk_inodes, data_blocks, dirty, last, scn,
             pc, fs_lock>>
sched_vars == <<ready_queue, current, tcbs, kernel_panicked>>

----------------------------------------------------------------------------
(* Geometry and layout.  The layout module is not part of the sources at   *)
(* hand; the widths follow the record layout of the design (28-byte name + *)
(* 4-byte inode number, 4-byte block pointers), on a small block size.     *)

BLOCK_SZ == 64
DIRENT_SZ == 32
NAME_LENGTH_LIMIT == 27
INODE_DIRECT_COUNT == 1
INODE_SIZE == 16
PTR_SZ == 4
INODE_INDIRECT1_COUNT == BLOCK_SZ \div PTR_SZ
INDIRECT1_BOUND == INODE_DIRECT_COUNT + INODE_INDIRECT1_COUNT

\* Bounds of the model: the size of the device.
NumInodes == 3
NumDataBlocks == 7

inode_area_start_block == 2
inodes_per_block == BLOCK_SZ \div INODE_SIZE
InodeAreaBlocks == (NumInodes + inodes_per_block - 1) \div inodes_per_block
data_area_start_block == inode_area_start_block + InodeAreaBlocks + 1

InodeIds == 0 .. NumInodes - 1
\* the block ids of a data area of n blocks
DataBlockIds(n) == { data_area_start_block + b : b \in 0 .. n - 1 }

Min(a, b) == IF a <= b THEN a ELSE b
Max(a, b) == IF a >= b THEN a ELSE b
CeilDiv(a, b) == (a + b - 1) \div b
Zeros(n) == [i \in 1 .. n |-> 0]
None == <<>>
Some(x) == <<x>>
SetMin(S) == CHOOSE x \in S : \A y \in S : x <= y

\* little-endian u32 <-> 4 bytes
U32Bytes(v) ==
    << v % 256, (v \div 256) % 256, (v \div 65536) % 256, (v \div 16777216) % 256 >>
U32At(bytes, pos) ==
    bytes[pos + 1] + 256 * bytes[pos + 2] + 65536 * bytes[pos + 3]
        + 16777216 * bytes[pos + 4]

\* bytes[pos .. pos+Len(src)-1] := src   (0-based pos)
Splice(bytes, pos, src) ==
    SubSeq(bytes, 1, pos) \o src \o SubSeq(bytes, pos + Len(src) + 1, Len(bytes))

----------------------------------------------------------------------------
(* DirEntry: 28-byte zero-padded name + 4-byte inode number.               *)

DirEntry_new(name, inode_number) ==
    name \o Zeros(NAME_LENGTH_LIMIT + 1 - Len(name)) \o U32Bytes(inode_number)

DirEntry_empty == Zeros(DIRENT_SZ)

\* the index of the first zero byte of bytes at or after i (0-based)
RECURSIVE FirstZero(_, _)
FirstZero(bytes, i) ==
    IF i >= Len(bytes) \/ bytes[i + 1] = 0 THEN i ELSE FirstZero(bytes, i + 1)

\* name(): the bytes before the first zero byte of the name field
DirEntry_name(dirent) == SubSeq(dirent, 1, FirstZero(dirent, 0))

DirEntry_inode_number(dirent) == U32At(dirent, NAME_LENGTH_LIMIT + 1)

----------------------------------------------------------------------------
(* DiskInode: type, size, direct pointers, indirect1, indirect2.           *)
(* A filesystem value d is a record                                        *)
(*   [ib, db, ino, blk, dirty]  (bitmaps, inode table, data area, cache).  *)

EmptyDiskInode(type) ==
    [type |-> type, size |-> 0, direct |-> Zeros(INODE_DIRECT_COUNT),
     indirect1 |-> 0, indirect2 |-> 0]

DiskInode_is_dir(di) == di.type = "Directory"

data_blocks_of(size) == CeilDiv(size, BLOCK_SZ)

total_blocks(size) ==
    LET n == data_blocks_of(size)
    IN  n + (IF n > INODE_DIRECT_COUNT THEN 1 ELSE 0)
          + (IF n > INDIRECT1_BOUND
             THEN 1 + CeilDiv(n - INDIRECT1_BOUND, INODE_INDIRECT1_COUNT)
             ELSE 0)

blocks_num_needed(di, new_size) == total_blocks(new_size) - total_blocks(di.size)

\* pointer slot i of the pointer block `id`
PtrAt(blk, id, i) == U32At(blk[id], PTR_SZ * i)
SetPtr(blk, id, i, v) == [blk EXCEPT ![id] = Splice(@, PTR_SZ * i, U32Bytes(v))]

\* three-tier lookup of the physical block of file-relative block inner_id
get_block_id(di, blk, inner_id) ==
    IF inner_id < INODE_DIRECT_COUNT THEN di.direct[inner_id + 1]
    ELSE IF inner_id < INDIRECT1_BOUND
    THEN PtrAt(blk, di.indirect1, inner_id - INODE_DIRECT_COUNT)
    ELSE LET l == inner_id - INDIRECT1_BOUND
         IN  PtrAt(blk, PtrAt(blk, di.indirect2, l \div INODE_INDIRECT1_COUNT),
                   l % INODE_INDIRECT1_COUNT)

(* increase_size wires the supplied block ids, in order of file-relative   *)
(* block index, taking a bookkeeping block from the same list just before  *)
(* the first data block that needs it.  w = [di, blk, dirty, rest, ok]:    *)
(* ok turns FALSE when the list runs out (unwrap of None).                 *)
RECURSIVE Wire(_, _, _)
Wire(w, k, total) ==
    IF k >= total \/ ~w.ok THEN w
    ELSE
    LET take(x) == IF x.rest = <<>> THEN [x EXCEPT !.ok = FALSE]
                   ELSE [x EXCEPT !.rest = Tail(@)]
        hd(x) == IF x.rest = <<>> THEN 0 ELSE Head(x.rest)
        \* indirect1 block, when the first block past the direct ones is wired
        w1 == IF k = INODE_DIRECT_COUNT
              THEN take([w EXCEPT !.di.indirect1 = hd(w)])
              ELSE w
        \* indirect2 block
        w2 == IF k = INDIRECT1_BOUND
              THEN take([w1 EXCEPT !.di.indirect2 = hd(w1)])
              ELSE w1
        l  == k - INDIRECT1_BOUND
        a0 == l \div INODE_INDIRECT1_COUNT
        b0 == l % INODE_INDIRECT1_COUNT
        \* a second-level pointer block
        w3 == IF k >= INDIRECT1_BOUND /\ b0 = 0 /\ w2.ok
              THEN take([w2 EXCEPT
                            !.blk = SetPtr(@, w2.di.indirect2, a0, hd(w2)),
                            !.dirty = @ \cup {w2.di.indirect2}])
              ELSE w2
        new == hd(w3)
        w4 == IF ~w3.ok THEN w3
              ELSE IF k < INODE_DIRECT_COUNT
              THEN take([w3 EXCEPT !.di.direct[k + 1] = new])
              ELSE IF k < INDIRECT1_BOUND
              THEN take([w3 EXCEPT
                            !.blk = SetPtr(@, w3.di.indirect1,
                                           k - INODE_DIRECT_COUNT, new),
                            !.dirty = @ \cup {w3.di.indirect1}])
              ELSE LET sub == PtrAt(w3.blk, w3.di.indirect2, a0)
                   IN  take([w3 EXCEPT
                                !.blk = SetPtr(@, sub, b0, new),
                                !.dirty = @ \cup {sub}])
    IN  Wire(w4, k + 1, total)

DiskInode_increase_size(di, blk, dty, new_size, new_blocks) ==
    Wire([di |-> [di EXCEPT !.size = new_size], blk |-> blk, dirty |-> dty,
          rest |-> new_blocks, ok |-> TRUE],
         data_blocks_of(di.size), data_blocks_of(new_size))

(* clear_size: every data and bookkeeping block in use, size and pointers  *)
(* reset.  The order is that of the walk: direct, indirect1 and its data,  *)
(* indirect2, then each second-level block and its data.                   *)
DiskInode_clear_size(di, blk) ==
    LET n == data_blocks_of(di.size)
        data(k) == get_block_id(di, blk, k)
        nd == Min(n, INODE_DIRECT_COUNT)
        n1 == Min(Max(n - INODE_DIRECT_COUNT, 0), INODE_INDIRECT1_COUNT)
        n2 == Max(n - INDIRECT1_BOUND, 0)
        subs == CeilDiv(n2, INODE_INDIRECT1_COUNT)
        direct == [k \in 1 .. nd |-> data(k - 1)]
        ind1 == IF n > INODE_DIRECT_COUNT
                THEN <<di.indirect1>>
                       \o [k \in 1 .. n1 |-> data(INODE_DIRECT_COUNT + k - 1)]
                ELSE <<>>
        RECURSIVE Level2(_)
        Level2(a) ==
            IF a >= subs THEN <<>>
            ELSE LET cnt == Min(n2 - a * INODE_INDIRECT1_COUNT, INODE_INDIRECT1_COUNT)
                 IN  <<PtrAt(blk, di.indirect2, a)>>
                       \o [b \in 1 .. cnt |->
                              data(INDIRECT1_BOUND + a * INODE_INDIRECT1_COUNT + b - 1)]
                       \o Level2(a + 1)
        ind2 == IF n > INDIRECT1_BOUND THEN <<di.indirect2>> \o Level2(0) ELSE <<>>
    IN  [di |-> [di EXCEPT !.size = 0, !.direct = Zeros(INODE_DIRECT_COUNT),
                           !.indirect1 = 0, !.indirect2 = 0],
         v  |-> direct \o ind1 \o ind2]

\* read_at: never past size; the bytes of [offset, min(offset+len, size)),
\* copied block by block, each chunk clipped to the block boundary
RECURSIVE ReadChunks(_, _, _, _)
ReadChunks(di, blk, start, end) ==
    IF start >= end THEN <<>>
    ELSE LET end_current_block == Min((start \div BLOCK_SZ + 1) * BLOCK_SZ, end)
             id == get_block_id(di, blk, start \div BLOCK_SZ)
         IN  SubSeq(blk[id], (start % BLOCK_SZ) + 1,
                    (start % BLOCK_SZ) + end_current_block - start)
               \o ReadChunks(di, blk, end_current_block, end)

DiskInode_read_at(di, blk, offset, len) ==
    ReadChunks(di, blk, offset, Min(offset + len, di.size))

\* write_at: the bytes of buf that fall below size, block by block
\* x = [blk, dirty]
RECURSIVE WriteChunks(_, _, _, _, _, _)
WriteChunks(di, x, offset, buf, start, end) ==
    IF start >= end THEN x
    ELSE LET end_current_block == Min((start \div BLOCK_SZ + 1) * BLOCK_SZ, end)
             id == get_block_id(di, x.blk, start \div BLOCK_SZ)
             src == SubSeq(buf, start - offset + 1, end_current_block - offset)
         IN  WriteChunks(di,
                         [blk |-> [x.blk EXCEPT ![id] = Splice(@, start % BLOCK_SZ, src)],
                          dirty |-> x.dirty \cup {id}],
                         offset, buf, end_current_block, end)

\* result: [blk, dirty, n, ok]; ok is the assertion start <= end
DiskInode_write_at(di, blk, dty, offset, buf) ==
    LET end == Min(offset + Len(buf), di.size)
        x == WriteChunks(di, [blk |-> blk, dirty |-> dty], offset, buf, offset, end)
    IN  IF offset > end THEN [blk |-> blk, dirty |-> dty, n |-> 0, ok |-> FALSE]
        ELSE [blk |-> x.blk, dirty |-> x.dirty, n |-> end - offset, ok |-> TRUE]

----------------------------------------------------------------------------
(* EasyFileSystem: the allocator.  Bitmaps hand out the lowest free bit;   *)
(* exhaustion is fatal (ok = FALSE).                                       *)

ROOT_INODE_ID == 0

get_disk_inode_pos(inode_id) ==
    [block_id |-> inode_area_start_block + inode_id \div inodes_per_block,
     block_offset |-> (inode_id % inodes_per_block) * INODE_SIZE]

\* the slot of the inode table a (block id, offset) pair addresses
InodeSlot(block_id, block_offset) ==
    (block_id - inode_area_start_block) * inodes_per_block
        + block_offset \div INODE_SIZE

alloc_inode(d) ==
    LET free == InodeIds \ d.ib
    IN  IF free = {} THEN [d |-> d, id |-> 0, ok |-> FALSE]
        ELSE [d |-> [d EXCEPT !.ib = @ \cup {SetMin(free)}],
              id |-> SetMin(free), ok |-> TRUE]

alloc_data(d) ==
    LET free == { b \in 0 .. Cardinality(DOMAIN d.blk) - 1 : b \notin d.db }
    IN  IF free = {} THEN [d |-> d, id |-> 0, ok |-> FALSE]
        ELSE [d |-> [d EXCEPT !.db = @ \cup {SetMin(free)}],
              id |-> SetMin(free) + data_area_start_block, ok |-> TRUE]

dealloc_data(d, block_id) ==
    [d EXCEPT !.db = @ \ {block_id - data_area_start_block}]

\* n successive alloc_data calls: [d, v, ok]
RECURSIVE AllocMany(_, _)
AllocMany(d, n) ==
    IF n <= 0 THEN [d |-> d, v |-> <<>>, ok |-> TRUE]
    ELSE LET a == alloc_data(d)
             r == AllocMany(a.d, n - 1)
         IN  IF ~a.ok THEN [d |-> d, v |-> <<>>, ok |-> FALSE]
             ELSE [d |-> r.d, v |-> <<a.id>> \o r.v, ok |-> r.ok]

RECURSIVE DeallocAll(_, _)
DeallocAll(d, v) ==
    IF v = <<>> THEN d ELSE DeallocAll(dealloc_data(d, Head(v)), Tail(v))

block_cache_sync_all(d) == [d EXCEPT !.dirty = {}]

----------------------------------------------------------------------------
(* Inode: the VFS handle (block_id, block_offset) and its operations.      *)
(* Every operation takes the filesystem value d and returns a record with  *)
(* the new value d, the result, and ok = FALSE where the code aborts.      *)

Inode_new(block_id, block_offset) ==
    [block_id |-> block_id, block_offset |-> block_offset]

ROOT_INODE ==
    Inode_new(get_disk_inode_pos(ROOT_INODE_ID).block_id,
              get_disk_inode_pos(ROOT_INODE_ID).block_offset)

read_disk_inode(d, self) == d.ino[InodeSlot(self.block_id, self.block_offset)]

\* modify_disk_inode writes the record back and marks its block dirty
modify_disk_inode(d, self, di) ==
    [d EXCEPT !.ino[InodeSlot(self.block_id, self.block_offset)] = di,
              !.dirty = @ \cup {self.block_id}]

\* the directory's DirEntry records, slot by slot (read_at of DIRENT_SZ bytes,
\* which returns DIRENT_SZ for every i < file_count)
DirEntries(d, disk_inode) ==
    [i \in 1 .. disk_inode.size \div DIRENT_SZ |->
        DiskInode_read_at(disk_inode, d.blk, DIRENT_SZ * (i - 1), DIRENT_SZ)]

find_inode_id(d, name, disk_inode) ==
    LET es == DirEntries(d, disk_inode)
        hits == { i \in DOMAIN es : DirEntry_name(es[i]) = name }
    IN  IF hits = {} THEN None
        ELSE Some(DirEntry_inode_number(es[SetMin(hits)]))

find_inode_id_by_name(d, self, name) ==
    find_inode_id(d, name, read_disk_inode(d, self))

\* faulty variant: the byte offset is not divided by the record size
get_inode_number_byte_offset(self) ==
    (self.block_id - inode_area_start_block) * inodes_per_block + self.block_offset

get_inode_number(self) ==
    (self.block_id - inode_area_start_block) * inodes_per_block
        + self.block_offset \div INODE_SIZE

get_inode_number_times(d, self, inode_number) ==
    LET es == DirEntries(d, read_disk_inode(d, self))
    IN  Cardinality({ i \in DOMAIN es : DirEntry_inode_number(es[i]) = inode_number })

find(d, self, name) ==
    LET r == find_inode_id(d, name, read_disk_inode(d, self))
    IN  IF r = None THEN None
        ELSE Some(Inode_new(get_disk_inode_pos(r[1]).block_id,
                            get_disk_inode_pos(r[1]).block_offset))

\* the block cache after a DiskInode operation w = [blk, dirty, ...]
WithCache(d, w) == [d EXCEPT !.blk = w.blk, !.dirty = w.dirty]

\* Inode::increase_size on the record disk_inode: [d, di, ok].  The callers'
\* `as u32` casts are the identity on every size a device of this model holds.
\* a is the result of the alloc_data loop, w that of DiskInode::increase_size.
increase_size_wired(d, w) == [d |-> WithCache(d, w), di |-> w.di, ok |-> w.ok]

increase_size_alloc(d, a, new_size, disk_inode) ==
    IF ~a.ok THEN [d |-> d, di |-> disk_inode, ok |-> FALSE]
    ELSE increase_size_wired(a.d,
             DiskInode_increase_size(disk_inode, a.d.blk, a.d.dirty, new_size, a.v))

\* faulty variant: no early return when the new size is below the size
increase_size_without_size_test(d, new_size, disk_inode) ==
    increase_size_alloc(d, AllocMany(d, blocks_num_needed(disk_inode, new_size)),
                        new_size, disk_inode)

increase_size(d, new_size, disk_inode) ==
    IF new_size < disk_inode.size THEN [d |-> d, di |-> disk_inode, ok |-> TRUE]
    ELSE increase_size_alloc(d, AllocMany(d, blocks_num_needed(disk_inode, new_size)),
                             new_size, disk_inode)

\* the rest of the closure `increase_size(...); disk_inode.write_at(offset, buf)`
\* run by modify_disk_inode on the grown record g = [d, di, ok]: [d, n, ok]
write_stored(g, w, self) ==
    [d |-> modify_disk_inode(WithCache(g.d, w), self, g.di), n |-> w.n,
     ok |-> g.ok /\ w.ok]

write_grown(g, self, offset, buf) ==
    write_stored(g, DiskInode_write_at(g.di, g.d.blk, g.d.dirty, offset, buf), self)

\* faulty variant: the directory grows by the width of the name field only
AppendDirEntry_name_width(d, self, name, inode_number) ==
    write_grown(increase_size(d, read_disk_inode(d, self).size + NAME_LENGTH_LIMIT + 1,
                              read_disk_inode(d, self)),
                self, (read_disk_inode(d, self).size \div DIRENT_SZ) * DIRENT_SZ,
                DirEntry_new(name, inode_number))

\* faulty variant: the new entry is written over slot 0 instead of the new slot
AppendDirEntry_at_slot_0(d, self, name, inode_number) ==
    write_grown(increase_size(d, (read_disk_inode(d, self).size \div DIRENT_SZ + 1)
                                     * DIRENT_SZ,
                              read_disk_inode(d, self)),
                self, 0, DirEntry_new(name, inode_number))

\* the closure both create and create_hard_link run on the directory inode:
\* grow by one DirEntry and write (name, inode_number) into the new slot
\* (file_count = size / DIRENT_SZ, new_size = (file_count + 1) * DIRENT_SZ)
AppendDirEntry(d, self, name, inode_number) ==
    write_grown(increase_size(d, (read_disk_inode(d, self).size \div DIRENT_SZ + 1)
                                     * DIRENT_SZ,
                              read_disk_inode(d, self)),
                self, (read_disk_inode(d, self).size \div DIRENT_SZ) * DIRENT_SZ,
                DirEntry_new(name, inode_number))

\* create_hard_link after the directory entry is written: e = [d, n, ok]
create_hard_link_done(e) == [d |-> e.d, ret |-> 0, ok |-> e.ok]

\* faulty variant: no self-link test
create_hard_link_no_self_test(d, self, o_name, n_name) ==
    IF find_inode_id(d, o_name, read_disk_inode(d, self)) = None
    THEN [d |-> d, ret |-> -1, ok |-> TRUE]
    ELSE create_hard_link_done(
             AppendDirEntry(d, self, n_name,
                            find_inode_id(d, o_name, read_disk_inode(d, self))[1]))

\* faulty variant: an old name that does not resolve links inode 0
create_hard_link_missing_as_0(d, self, o_name, n_name) ==
    IF o_name = n_name THEN [d |-> d, ret |-> -1, ok |-> TRUE]
    ELSE create_hard_link_done(
             AppendDirEntry(d, self, n_name,
                 IF find_inode_id(d, o_name, read_disk_inode(d, self)) = None THEN 0
                 ELSE find_inode_id(d, o_name, read_disk_inode(d, self))[1]))

create_hard_link(d, self, o_name, n_name) ==
    IF o_name = n_name THEN [d |-> d, ret |-> -1, ok |-> TRUE]
    ELSE IF find_inode_id(d, o_name, read_disk_inode(d, self)) = None
    THEN [d |-> d, ret |-> -1, ok |-> TRUE]
    ELSE create_hard_link_done(
             AppendDirEntry(d, self, n_name,
                            find_inode_id(d, o_name, read_disk_inode(d, self))[1]))

\* the loop of remove_hard_link: every slot whose name is `name` is overwritten
\* with DirEntry::empty()
RECURSIVE ZeroNamed(_, _, _, _)
ZeroNamed(d, disk_inode, name, i) ==
    IF i >= disk_inode.size \div DIRENT_SZ THEN d
    ELSE IF DirEntry_name(DiskInode_read_at(disk_inode, d.blk, DIRENT_SZ * i, DIRENT_SZ))
              = name
    THEN ZeroNamed(WithCache(d, DiskInode_write_at(disk_inode, d.blk, d.dirty,
                                                   DIRENT_SZ * i, DirEntry_empty)),
                   disk_inode, name, i + 1)
    ELSE ZeroNamed(d, disk_inode, name, i + 1)

\* faulty variant: the loop zeroes the slots by inode number, not by name
RECURSIVE ZeroNumbered(_, _, _, _)
ZeroNumbered(d, disk_inode, inode_number, i) ==
    IF i >= disk_inode.size \div DIRENT_SZ THEN d
    ELSE IF DirEntry_inode_number(
                DiskInode_read_at(disk_inode, d.blk, DIRENT_SZ * i, DIRENT_SZ))
              = inode_number
    THEN ZeroNumbered(WithCache(d, DiskInode_write_at(disk_inode, d.blk, d.dirty,
                                                      DIRENT_SZ * i, DirEntry_empty)),
                      disk_inode, inode_number, i + 1)
    ELSE ZeroNumbered(d, disk_inode, inode_number, i + 1)

remove_hard_link_by_number(d, self, name) ==
    IF find_inode_id(d, name, read_disk_inode(d, self)) = None
    THEN [d |-> d, ret |-> -1, ok |-> TRUE]
    ELSE [d |-> modify_disk_inode(
                    ZeroNumbered(d, read_disk_inode(d, self),
                                 find_inode_id(d, name, read_disk_inode(d, self))[1], 0),
                    self, read_disk_inode(d, self)),
          ret |-> 0, ok |-> TRUE]

\* Both branches (res > 1 and the last name) run the same loop; the last-name
\* branch first resolves the inode with find(name).unwrap() and drops it.
remove_hard_link(d, self, name) ==
    IF find_inode_id(d, name, read_disk_inode(d, self)) = None
    THEN [d |-> d, ret |-> -1, ok |-> TRUE]
    ELSE [d |-> modify_disk_inode(ZeroNamed(d, read_disk_inode(d, self), name, 0),
                                  self, read_disk_inode(d, self)),
          ret |-> 0,
          ok |-> \/ get_inode_number_times(d, self,
                       find_inode_id(d, name, read_disk_inode(d, self))[1]) > 1
                 \/ find(d, self, name) # None]

\* create after the directory entry is written: e = [d, n, ok]
create_done(e, new_inode) ==
    [d |-> block_cache_sync_all(e.d), out |-> Some(new_inode), ok |-> e.ok]

\* faulty variant: the entry and the handle name the inode allocated before
\* a.id, and the record is not initialized
create_alloc_previous_inode(d0, a, self, name) ==
    IF ~a.ok THEN [d |-> d0, out |-> None, ok |-> FALSE]
    ELSE create_done(
             AppendDirEntry(a.d, self, name, Max(a.id - 1, 1)),
             Inode_new(get_disk_inode_pos(Max(a.id - 1, 1)).block_id,
                       get_disk_inode_pos(Max(a.id - 1, 1)).block_offset))

\* create once the inode a.id is allocated: the record is initialized as an
\* empty file, the entry (name, a.id) appended
create_alloc(d0, a, self, name) ==
    IF ~a.ok THEN [d |-> d0, out |-> None, ok |-> FALSE]
    ELSE create_done(
             AppendDirEntry(
                 modify_disk_inode(a.d,
                     Inode_new(get_disk_inode_pos(a.id).block_id,
                               get_disk_inode_pos(a.id).block_offset),
                     EmptyDiskInode("File")),
                 self, name, a.id),
             Inode_new(get_disk_inode_pos(a.id).block_id,
                       get_disk_inode_pos(a.id).block_offset))

\* faulty variant: no test whether the name exists
create_no_exists_test(d, self, name) ==
    create_alloc(modify_disk_inode(d, self, read_disk_inode(d, self)),
                 alloc_inode(modify_disk_inode(d, self, read_disk_inode(d, self))),
                 self, name)

\* The lookup runs under modify_disk_inode, which marks the directory's block
\* dirty even when the name is found.
create(d, self, name) ==
    IF ~DiskInode_is_dir(read_disk_inode(d, self))
    THEN [d |-> d, out |-> None, ok |-> FALSE]
    ELSE IF find_inode_id(d, name, read_disk_inode(d, self)) # None
    THEN [d |-> modify_disk_inode(d, self, read_disk_inode(d, self)),
          out |-> None, ok |-> TRUE]
    ELSE create_alloc(modify_disk_inode(d, self, read_disk_inode(d, self)),
                      alloc_inode(modify_disk_inode(d, self, read_disk_inode(d, self))),
                      self, name)

ls(d, self) ==
    [i \in 1 .. read_disk_inode(d, self).size \div DIRENT_SZ |->
        DirEntry_name(DiskInode_read_at(read_disk_inode(d, self), d.blk,
                                        DIRENT_SZ * (i - 1), DIRENT_SZ))]

read_at(d, self, offset, len) ==
    DiskInode_read_at(read_disk_inode(d, self), d.blk, offset, len)

\* write_at after the closure has run: w = [d, n, ok]
write_at_done(w) == [d |-> block_cache_sync_all(w.d), ret |-> w.n, ok |-> w.ok]

\* faulty variant: the file is grown to offset, not to offset + buf.len()
write_at_grows_to_offset(d, self, offset, buf) ==
    write_at_done(write_grown(increase_size(d, offset, read_disk_inode(d, self)),
                              self, offset, buf))

write_at(d, self, offset, buf) ==
    write_at_done(write_grown(increase_size(d, offset + Len(buf),
                                            read_disk_inode(d, self)),
                              self, offset, buf))

\* clear after clear_size: c = [di, v]
clear_done(d, self, c, size) ==
    [d |-> block_cache_sync_all(DeallocAll(modify_disk_inode(d, self, c.di), c.v)),
     ok |-> Len(c.v) = total_blocks(size)]

clear(d, self) ==
    clear_done(d, self, DiskInode_clear_size(read_disk_inode(d, self), d.blk),
               read_disk_inode(d, self).size)

----------------------------------------------------------------------------
(* The syscall layer (os6/src/syscall/fs.rs).  A path argument is a        *)
(* NUL-terminated byte string in user memory.                              *)

\* translated_str: the bytes before the first NUL
translated_str(cstr) == SubSeq(cstr, 1, FirstZero(cstr, 0))

\* crate::fs::create_new_dir_entry / crate::fs::remove_hard_link: the root
\* inode's operations
create_new_dir_entry(d, o_name, n_name) == create_hard_link(d, ROOT_INODE, o_name, n_name)
fs_remove_hard_link(d, name) == remove_hard_link(d, ROOT_INODE, name)

sys_linkat(d, old_name, new_name) ==
    create_new_dir_entry(d, translated_str(old_name), translated_str(new_name))

sys_unlinkat(d, name) == fs_remove_hard_link(d, translated_str(name))

\* Inode::get_type / get_inode_type: 0 for a directory, 1 otherwise
get_type(disk_inode) == IF DiskInode_is_dir(disk_inode) THEN 0 ELSE 1
get_inode_type(d, self) == get_type(read_disk_inode(d, self))

\* crate::fs::get_hard_links_by_inode_number: the root inode's count
get_hard_links_by_inode_number(d, ino) == get_inode_number_times(d, ROOT_INODE, ino)

\* sys_fstat.  slot is what the descriptor selects in the task's fd_table:
\* None when fd is out of range or closed, else Some(inode).  The Stat
\* written to user memory is `out`.
sys_fstat(d, slot) ==
    IF slot = None THEN [d |-> d, ret |-> -1, out |-> None, ok |-> TRUE]
    ELSE [d |-> d, ret |-> 0,
          out |-> Some([ino |-> get_inode_number(slot[1]),
                        nlink |-> get_hard_links_by_inode_number(
                                      d, get_inode_number(slot[1])),
                        mode |-> IF get_inode_type(d, slot[1]) = 0
                                 THEN "DIR" ELSE "FILE"]),
          ok |-> TRUE]

----------------------------------------------------------------------------
(* The state machine.                                                      *)

\* Bounds on the inputs and on the directory's length.
MaxInodeId == 9
MaxDirEntries == 3
MaxWriteOffset == 0

F == <<102>>
G == <<103>>
Names == { <<>>, F, G }
CStrings == { n \o <<0>> : n \in Names }
Buffers == { <<7, 8>> }
WriteOffsets == 0 .. MaxWriteOffset

Cur ==
    [ib |-> inode_bitmap, db |-> data_bitmap, ino |-> disk_inodes,
     blk |-> data_blocks, dirty |-> dirty]

Install(d) ==
    /\ inode_bitmap' = d.ib
    /\ data_bitmap' = d.db
    /\ disk_inodes' = d.ino
    /\ data_blocks' = d.blk
    /\ dirty' = d.dirty

Call(op, a, b, h, off, buf, ret, out) ==
    [op |-> op, a |-> a, b |-> b, h |-> h, off |-> off, buf |-> buf,
     ret |-> ret, out |-> out]

\* handles a caller can hold: those create returned (the allocated file inodes)
FileHandles ==
    { Inode_new(get_disk_inode_pos(i).block_id, get_disk_inode_pos(i).block_offset) :
        i \in inode_bitmap \ {ROOT_INODE_ID} }

FileCount(d) == read_disk_inode(d, ROOT_INODE).size \div DIRENT_SZ

\* the number of free data blocks
FreeDataBlocks(d) == Cardinality(DOMAIN d.blk) - Cardinality(d.db)

Mkfs(n) ==
    /\ inode_bitmap = {ROOT_INODE_ID}
    /\ data_bitmap = {}
    /\ disk_inodes = [i \in InodeIds |->
                        IF i = ROOT_INODE_ID THEN EmptyDiskInode("Directory")
                        ELSE EmptyDiskInode("Unset")]
    /\ data_blocks = [b \in DataBlockIds(n) |-> Zeros(BLOCK_SZ)]
    /\ dirty = {}
    /\ last = Call("mkfs", <<>>, <<>>, None, 0, <<>>, 0, None)

(* The script: create(F) on a directory where G does not resolve, then     *)
(* create_hard_link(F, G), remove_hard_link(F), remove_hard_link(G), each  *)
(* succeeding, with nothing but writes to that file in between.  free0 and *)
(* dir0 are the free data blocks and the directory's blocks before the     *)
(* create.                                                                 *)
Scn0 == [phase |-> 0, ino |-> 0, free0 |-> 0, dir0 |-> 0]

ScnHandle == Inode_new(get_disk_inode_pos(scn.ino).block_id,
                       get_disk_inode_pos(scn.ino).block_offset)

ScnAfter(c) ==
    IF c.op = "create" /\ c.a = F /\ c.out # None
          /\ find_inode_id_by_name(Cur, ROOT_INODE, G) = None
    THEN [phase |-> 1, ino |-> get_inode_number(c.out[1]),
          free0 |-> FreeDataBlocks(Cur),
          dir0 |-> total_blocks(read_disk_inode(Cur, ROOT_INODE).size)]
    ELSE IF scn.phase = 1 /\ c.op = "create_hard_link" /\ c.a = F /\ c.b = G /\ c.ret = 0
    THEN [scn EXCEPT !.phase = 2]
    ELSE IF scn.phase = 2 /\ c.op = "remove_hard_link" /\ c.a = F /\ c.ret = 0
    THEN [scn EXCEPT !.phase = 3]
    ELSE IF scn.phase = 3 /\ c.op = "remove_hard_link" /\ c.a = G /\ c.ret = 0
    THEN [scn EXCEPT !.phase = 4]
    ELSE IF scn.phase \in 1 .. 3 /\ c.op \in {"write_at", "clear"} /\ c.h = Some(ScnHandle)
    THEN scn
    ELSE Scn0

\* The tasks that call into the filesystem, and a task outside any call.
Tasks == {1, 2}
Idle == [op |-> "idle", at |-> "idle", a |-> <<>>, b |-> <<>>, h |-> None,
         r |-> None, res |-> 0, n0 |-> 0, ov |-> FALSE]

NoCallInProgress ==
    /\ pc = [t \in Tasks |-> Idle]
    /\ fs_lock = 0

\* The scheduler (os6/src/task): u8 strides and priorities.
NumProcs == 3
Procs == 1 .. NumProcs
Priorities == { 30, 60 }
U8 == 256
BIG_STRIDE == 255

\* a task control block that has not been handed to the scheduler yet
UnInit == [stride |-> 0, priority |-> 0, task_status |-> "UnInit"]

\* TaskManager::new, Processor::new
SchedNew ==
    /\ ready_queue = <<>>
    /\ current = None
    /\ tcbs = [t \in Procs |-> UnInit]
    /\ kernel_panicked = FALSE

Init ==
    /\ Mkfs(NumDataBlocks)
    /\ scn = Scn0
    /\ NoCallInProgress
    /\ SchedNew

\* a whole operation by a single caller
Step(d, c) ==
    /\ Install(d)
    /\ last' = c
    /\ scn' = ScnAfter(c)
    /\ UNCHANGED <<pc, fs_lock>>
    /\ UNCHANGED sched_vars

\* an operation that returns (r.ok; an abort ends the run) takes effect
Returns(r, op, a, b, h, off, buf) ==
    /\ r.ok
    /\ Step(r.d, Call(op, a, b, h, off, buf,
                      IF "ret" \in DOMAIN r THEN r.ret ELSE 0,
                      IF "out" \in DOMAIN r THEN r.out ELSE None))

Create(name) ==
    /\ FileCount(Cur) < MaxDirEntries
    /\ Returns(create(Cur, ROOT_INODE, name), "create", name, <<>>, None, 0, <<>>)

CreateHardLink(o_name, n_name) ==
    /\ FileCount(Cur) < MaxDirEntries
    /\ Returns(create_hard_link(Cur, ROOT_INODE, o_name, n_name),
               "create_hard_link", o_name, n_name, None, 0, <<>>)

RemoveHardLink(name) ==
    Returns(remove_hard_link(Cur, ROOT_INODE, name),
            "remove_hard_link", name, <<>>, None, 0, <<>>)

SysLinkat(old_name, new_name) ==
    /\ FileCount(Cur) < MaxDirEntries
    /\ Returns(sys_linkat(Cur, old_name, new_name),
               "sys_linkat", old_name, new_name, None, 0, <<>>)

SysUnlinkat(name) ==
    Returns(sys_unlinkat(Cur, name), "sys_unlinkat", name, <<>>, None, 0, <<>>)

WriteAt(h, offset, buf) ==
    Returns(write_at(Cur, h, offset, buf), "write_at", <<>>, <<>>, Some(h), offset, buf)

Clear(h) ==
    Returns(clear(Cur, h), "clear", <<>>, <<>>, Some(h), 0, <<>>)

SysFstat(slot) ==
    Returns(sys_fstat(Cur, slot), "sys_fstat", <<>>, <<>>, slot, 0, <<>>)

\* The directory operations of the root inode, with writes to the files.
Next ==
    \/ \E name \in Names : Create(name)
    \/ \E o_name \in Names, n_name \in Names : CreateHardLink(o_name, n_name)
    \/ \E name \in Names : RemoveHardLink(name)
    \/ \E old_name \in CStrings, new_name \in CStrings : SysLinkat(old_name, new_name)
    \/ \E name \in CStrings : SysUnlinkat(name)
    \/ \E h \in FileHandles, offset \in WriteOffsets, buf \in Buffers :
          WriteAt(h, offset, buf)
    \/ \E slot \in {None} \cup { Some(h) : h \in FileHandles } : SysFstat(slot)

Spec == Init /\ [][Next]_vars

(* Reading and writing one file on a device large enough for           *)
(* doubly-indirect files: writes at the start, across the direct/indirect1 *)
(* boundary and across the indirect1/indirect2 boundary, and truncation.   *)
NumDataBlocksRW == 24
RWOffsets == { 0, BLOCK_SZ - 1, INDIRECT1_BOUND * BLOCK_SZ - 1 }
\* 66 bytes: from offset BLOCK_SZ - 1 they span three blocks
LongBuf == [i \in 1 .. BLOCK_SZ + 2 |-> 1 + (i % 5)]
RWBuffers == { <<>>, <<8, 9>>, LongBuf }

InitRW ==
    /\ Mkfs(NumDataBlocksRW)
    /\ scn = Scn0
    /\ NoCallInProgress
    /\ SchedNew

NextRW ==
    \/ Create(F)
    \/ \E h \in FileHandles, offset \in RWOffsets, buf \in RWBuffers :
          WriteAt(h, offset, buf)
    \/ \E h \in FileHandles : Clear(h)

SpecRW == InitRW /\ [][NextRW]_vars

----------------------------------------------------------------------------
(* Two tasks in the VFS operations at once.  A call is cut at the points   *)
(* where the code takes or drops the allocator lock (self.fs.lock() and    *)
(* the end of the guard's scope); the closures run by read_disk_inode and  *)
(* modify_disk_inode hold the block's cache lock and are one step each.    *)
(* The points of a call:                                                   *)
(*   lookup      read_disk_inode(find_inode_id) of create_hard_link and    *)
(*               remove_hard_link, before any fs.lock()                    *)
(*   lock        fs.lock() of create, create_hard_link, find, ls, read_at, *)
(*               write_at, clear, get_inode_number_times, get_inode_number *)
(*   body        the rest of those operations, to the return               *)
(*   append      the modify_disk_inode closure of create_hard_link         *)
(*   times_lock, times   get_inode_number_times called by remove_hard_link *)
(*   find_lock, find     find(name).unwrap() called by remove_hard_link    *)
(*   zero        the modify_disk_inode closure of remove_hard_link         *)

NamesLk == { F, G }
MaxDirEntriesLk == 2
AcquireLabels == { "lock", "times_lock", "find_lock" }
Stopped == { "idle", "panicked", "self_deadlock" }

\* where a call starts
entry(op) ==
    IF op \in {"remove_hard_link", "create_hard_link"} THEN "lookup" ELSE "lock"

\* the point that follows `at`; r is the result of the lookup, res the count
next_label(op, at, r, res) ==
    CASE at = "lookup" -> IF r = None THEN "idle"
                          ELSE IF op = "create_hard_link" THEN "lock"
                          ELSE "times_lock"
      [] at = "lock" -> IF op = "create_hard_link" THEN "append" ELSE "body"
      [] at = "times_lock" -> "times"
      [] at = "times" -> IF res > 1 THEN "zero" ELSE "find_lock"
      [] at = "find_lock" -> "find"
      [] at = "find" -> "zero"
      [] OTHER -> "idle"

\* faulty variant: the guard taken for the count lives to the end of the call
drops_lock_at_return(op, at) == at \in {"append", "body", "zero"}

\* the steps at whose end a guard of the allocator lock goes out of scope
drops_lock(op, at) == at \in {"times", "find", "append", "body"}

\* the steps that take a block cache lock (read_disk_inode, modify_disk_inode)
takes_block_lock(op, at) ==
    \/ at \in {"lookup", "times", "find", "zero", "append"}
    \/ at = "body" /\ op # "get_inode_number"

\* the disk after the step of the call p
effect(d, p) ==
    CASE p.at = "zero" ->
            modify_disk_inode(ZeroNamed(d, read_disk_inode(d, ROOT_INODE), p.a, 0),
                              ROOT_INODE, read_disk_inode(d, ROOT_INODE))
      [] p.at = "append" -> AppendDirEntry(d, ROOT_INODE, p.b, p.r[1]).d
      [] p.at = "body" /\ p.op = "create" -> create(d, ROOT_INODE, p.a).d
      [] p.at = "body" /\ p.op = "write_at" -> write_at(d, p.h[1], 0, <<7, 8>>).d
      [] p.at = "body" /\ p.op = "clear" -> clear(d, p.h[1]).d
      [] OTHER -> d

\* the call p with the values its step reads
reads(d, p) ==
    CASE p.at = "lookup" ->
            [p EXCEPT !.r = find_inode_id_by_name(d, ROOT_INODE, p.a)]
      [] p.at = "times" ->
            [p EXCEPT !.res = get_inode_number_times(d, ROOT_INODE, p.r[1])]
      [] OTHER -> p

\* find(name).unwrap() on None
panics(d, p) == p.at = "find" /\ find(d, ROOT_INODE, p.a) = None

\* the call q (p after its reads) moved to its next point
advance(q) ==
    IF next_label(q.op, q.at, q.r, q.res) = "idle" THEN Idle
    ELSE [q EXCEPT !.at = next_label(q.op, q.at, q.r, q.res)]

\* observation: another remove_hard_link of the same name returned 0 during
\* the call u (forgotten when the other task starts a call that adds an entry)
overlapped(u, p) ==
    IF p.at = "zero" /\ u.op = "remove_hard_link" /\ u.a = p.a /\ u.at # "idle"
    THEN [u EXCEPT !.ov = TRUE] ELSE u

NamedSlots(d, name) ==
    Cardinality({ i \in DOMAIN DirEntries(d, read_disk_inode(d, ROOT_INODE)) :
        DirEntry_name(DirEntries(d, read_disk_inode(d, ROOT_INODE))[i]) = name })

\* calls in progress that will append an entry
Appending == Cardinality({ t \in Tasks : pc[t].op \in {"create", "create_hard_link"} })
Creating == Cardinality({ t \in Tasks : pc[t].op = "create" })

Begin(t, op, a, b, h) ==
    /\ \A u \in Tasks : pc[u].at = "idle" \/ pc[u].at \notin Stopped
    /\ pc[t].at = "idle"
    /\ pc' = [u \in Tasks |->
                IF u = t
                THEN [Idle EXCEPT !.op = op, !.at = entry(op), !.a = a, !.b = b, !.h = h,
                                  !.n0 = IF op = "remove_hard_link"
                                         THEN NamedSlots(Cur, a) ELSE 0]
                ELSE IF op \in {"create", "create_hard_link"}
                THEN [pc[u] EXCEPT !.ov = FALSE]
                ELSE pc[u]]
    /\ UNCHANGED <<inode_bitmap, data_bitmap, disk_inodes, data_blocks, dirty, last,
                   scn, fs_lock>>
    /\ UNCHANGED sched_vars

\* fs.lock(): spins while another task holds the lock; a task that holds it
\* already never gets it
Acquire(t, p) ==
    /\ fs_lock \in {0, t}
    /\ fs_lock' = t
    /\ pc' = [pc EXCEPT ![t] = IF fs_lock = t THEN [p EXCEPT !.at = "self_deadlock"]
                               ELSE advance(p)]
    /\ UNCHANGED <<inode_bitmap, data_bitmap, disk_inodes, data_blocks, dirty, last, scn>>
    /\ UNCHANGED sched_vars

Run(t, p) ==
    /\ Install(effect(Cur, p))
    /\ pc' = [u \in Tasks |->
                IF u # t THEN overlapped(pc[u], p)
                ELSE IF panics(Cur, p) THEN [p EXCEPT !.at = "panicked"]
                ELSE advance(reads(Cur, p))]
    /\ fs_lock' = IF drops_lock(p.op, p.at) /\ fs_lock = t /\ ~panics(Cur, p)
                  THEN 0 ELSE fs_lock
    /\ UNCHANGED <<last, scn>>
    /\ UNCHANGED sched_vars

Exec(t) ==
    /\ \A u \in Tasks : pc[u].at = "idle" \/ pc[u].at \notin Stopped
    /\ pc[t].at \notin Stopped
    /\ IF pc[t].at \in AcquireLabels THEN Acquire(t, pc[t]) ELSE Run(t, pc[t])

NextLk ==
    \/ \E t \in Tasks, a \in NamesLk :
          /\ FileCount(Cur) + Appending < MaxDirEntriesLk
          /\ Cardinality(inode_bitmap) + Creating < NumInodes
          /\ Begin(t, "create", a, <<>>, None)
    \/ \E t \in Tasks, a \in NamesLk, b \in NamesLk :
          /\ a # b
          /\ FileCount(Cur) + Appending < MaxDirEntriesLk
          /\ Begin(t, "create_hard_link", a, b, None)
    \/ \E t \in Tasks, a \in NamesLk : Begin(t, "remove_hard_link", a, <<>>, None)
    \/ \E t \in Tasks,
           op \in {"find", "ls", "get_inode_number_times", "get_inode_number", "read_at"} :
          Begin(t, op, F, <<>>, None)
    \/ \E t \in Tasks, h \in FileHandles, op \in {"write_at", "clear"} :
          Begin(t, op, <<>>, <<>>, Some(h))
    \/ \E t \in Tasks : Exec(t)

SpecLk == Init /\ [][NextLk]_vars

----------------------------------------------------------------------------
(* The stride scheduler (os6/src/task/manager.rs, processor.rs).  Strides  *)
(* and priorities are u8: set_priority stores a u8, BIG_STRIDE / priority  *)
(* is added to the stride with wrapping_add, and fetch compares strides by *)
(* the difference cast to i8.  The subtraction in fetch wraps (a build     *)
(* without overflow checks).  Tasks are handed to the scheduler with       *)
(* stride 0 before the first dispatch, and priorities are at least 2.      *)

wrapping_add(a, b) == (a + b) % U8
wrapping_sub(a, b) == (a - b + U8) % U8
as_i8(x) == IF x >= U8 \div 2 THEN x - U8 ELSE x

\* faulty variant: the strides compared as unsigned numbers
difference_unsigned(t, min_stride) == t - min_stride

\* (t - min_stride) as i8
difference(t, min_stride) == as_i8(wrapping_sub(t, min_stride))

\* the loop of fetch from position i (0-based) on: the index chosen
RECURSIVE fetch_scan(_, _, _, _, _)
fetch_scan(q, tc, i, index, min_stride) ==
    IF i >= Len(q) THEN index
    ELSE IF difference(tc[q[i + 1]].stride, min_stride) <= 0
    THEN fetch_scan(q, tc, i + 1, i, tc[q[i + 1]].stride)
    ELSE fetch_scan(q, tc, i + 1, index, min_stride)

\* VecDeque::remove(index), 0-based
remove(q, index) == SubSeq(q, 1, index) \o SubSeq(q, index + 2, Len(q))

\* TaskManager::fetch: [queue, task, ok]; ready_queue[0] on an empty queue is
\* an out-of-bounds index and aborts
fetch_found(q, index) ==
    [queue |-> remove(q, index), task |-> Some(q[index + 1]), ok |-> TRUE]

fetch(q, tc) ==
    IF Len(q) = 0 THEN [queue |-> q, task |-> None, ok |-> FALSE]
    ELSE fetch_found(q, fetch_scan(q, tc, 1, 0, tc[q[1]].stride))

\* TaskManager::add
add(q, task) == Append(q, task)

\* faulty variant: the dispatched task keeps its stride
dispatch_keeps_stride(tcb) == [tcb EXCEPT !.task_status = "Running"]

\* the task control block as run_tasks leaves it
dispatch(tcb) ==
    [tcb EXCEPT !.task_status = "Running",
                !.stride = wrapping_add(tcb.stride, BIG_STRIDE \div tcb.priority)]

\* add_task of a new task; the tasks enter with equal strides
AddTask(t, prio) ==
    /\ ~kernel_panicked
    /\ tcbs[t].task_status = "UnInit"
    /\ \A u \in Procs : tcbs[u].task_status \in {"Ready", "Running"}
                            => tcbs[u].stride = tcbs[t].stride
    /\ tcbs' = [tcbs EXCEPT ![t] = [@ EXCEPT !.priority = prio, !.task_status = "Ready"]]
    /\ ready_queue' = add(ready_queue, t)
    /\ UNCHANGED <<current, kernel_panicked>>
    /\ UNCHANGED fs_vars

\* one turn of the loop of run_tasks, in the idle control flow; r = fetch_task()
RunTasksWith(r) ==
    /\ kernel_panicked' = ~r.ok
    /\ ready_queue' = r.queue
    /\ current' = r.task
    /\ tcbs' = IF r.task = None THEN tcbs
               ELSE [tcbs EXCEPT ![r.task[1]] = dispatch(@)]

RunTasks ==
    /\ ~kernel_panicked
    /\ current = None
    /\ RunTasksWith(fetch(ready_queue, tcbs))
    /\ UNCHANGED fs_vars

\* the running task gives up the processor: take_current_task, add_task, schedule
Suspend ==
    /\ ~kernel_panicked
    /\ current # None
    /\ tcbs' = [tcbs EXCEPT ![current[1]].task_status = "Ready"]
    /\ ready_queue' = add(ready_queue, current[1])
    /\ current' = None
    /\ UNCHANGED kernel_panicked
    /\ UNCHANGED fs_vars

\* a task control block that has left the scheduler for good
Zombie == [stride |-> 0, priority |-> 0, task_status |-> "Zombie"]

\* the running task exits: take_current_task, schedule
Exit ==
    /\ ~kernel_panicked
    /\ current # None
    /\ tcbs' = [tcbs EXCEPT ![current[1]] = Zombie]
    /\ current' = None
    /\ UNCHANGED <<ready_queue, kernel_panicked>>
    /\ UNCHANGED fs_vars

\* set_priority, called by the running task
SetPriority(prio) ==
    /\ ~kernel_panicked
    /\ current # None
    /\ tcbs' = [tcbs EXCEPT ![current[1]].priority = prio]
    /\ UNCHANGED <<ready_queue, current, kernel_panicked>>
    /\ UNCHANGED fs_vars

NextSched ==
    \/ \E t \in Procs, prio \in Priorities : AddTask(t, prio)
    \/ RunTasks
    \/ Suspend
    \/ Exit
    \/ \E prio \in Priorities : SetPriority(prio)

SpecSched == Init /\ [][NextSched]_vars

\* the idle loop keeps turning and the timer makes a running task yield
SpecSchedFair == SpecSched /\ WF_vars(RunTasks) /\ WF_vars(Suspend)

----------------------------------------------------------------------------
(* Observations used by the properties.                                    *)

RootOf(d) == read_disk_inode(d, ROOT_INODE)
EntriesOf(d) == DirEntries(d, RootOf(d))
HandleOf(inode_id) ==
    Inode_new(get_disk_inode_pos(inode_id).block_id,
              get_disk_inode_pos(inode_id).block_offset)
\* a slot is live unless it is all zero (what remove_hard_link leaves behind)
Live(dirent) == dirent # DirEntry_empty
LiveSlots(d) == { i \in DOMAIN EntriesOf(d) : Live(EntriesOf(d)[i]) }
Tombstones(d) == DOMAIN EntriesOf(d) \ LiveSlots(d)
\* the whole content of a file
FileBytes(d, h) == read_at(d, h, 0, read_disk_inode(d, h).size)
\* everything on disk: bitmaps, inode records, data area
Disk == <<inode_bitmap, data_bitmap, disk_inodes, data_blocks>>
Occurrences(seq, x) == Cardinality({ i \in DOMAIN seq : seq[i] = x })

----------------------------------------------------------------------------
(* C1: after create_hard_link(a, b) returns 0, from any reachable          *)
(* directory, the link counts of the inodes a and b resolve to are equal,  *)
(* and equal the count of a's inode before the call plus one.  Stated for  *)
(* non-empty names a and b, which no zeroed slot can be mistaken for.      *)
C1_LinkCountAfterLink ==
    [][ (last'.op = "create_hard_link" /\ last'.ret = 0
            /\ last'.a # <<>> /\ last'.b # <<>>) =>
          LET pre == find_inode_id_by_name(Cur, ROOT_INODE, last'.a)
              na == find_inode_id_by_name(Cur', ROOT_INODE, last'.a)
              nb == find_inode_id_by_name(Cur', ROOT_INODE, last'.b)
          IN  /\ pre # None /\ na # None /\ nb # None
              /\ get_inode_number_times(Cur', ROOT_INODE, na[1])
                   = get_inode_number_times(Cur', ROOT_INODE, nb[1])
              /\ get_inode_number_times(Cur', ROOT_INODE, na[1])
                   = get_inode_number_times(Cur, ROOT_INODE, pre[1]) + 1 ]_vars

(* C2: after the script create f, link f g, unlink f, unlink g, neither    *)
(* name resolves and the data blocks the file took (whatever was written   *)
(* to it) are free again: the free count is the one before the create,     *)
(* less only what the directory itself grew by, which is never undone.     *)
C2_LastUnlinkReclaims ==
    scn.phase = 4 =>
        /\ find(Cur, ROOT_INODE, F) = None
        /\ find(Cur, ROOT_INODE, G) = None
        /\ FreeDataBlocks(Cur)
             = scn.free0 - (total_blocks(RootOf(Cur).size) - scn.dir0)

(* C3: after create f, link f g, unlink f: f does not resolve, g resolves  *)
(* to the inode f named, the file's bytes are those it held before the     *)
(* unlink, and the inode's link count is 1.                                *)
C3_UnlinkKeepsOtherName ==
    [][ (scn.phase = 2 /\ scn'.phase = 3) =>
          /\ find(Cur', ROOT_INODE, F) = None
          /\ find(Cur', ROOT_INODE, G) = Some(HandleOf(scn.ino))
          /\ FileBytes(Cur', find(Cur', ROOT_INODE, G)[1]) = FileBytes(Cur, HandleOf(scn.ino))
          /\ get_inode_number_times(Cur', ROOT_INODE, scn.ino) = 1 ]_vars

C3_Witness ==
    /\ scn.phase = 3
    /\ last.op = "remove_hard_link"
    /\ FileBytes(Cur, HandleOf(scn.ino)) = <<7, 8>>

(* C4: ls() returns the names of the live slots and nothing else: after    *)
(* remove_hard_link has zeroed an entry (here: of a non-empty name), ls()  *)
(* has no element for the dead slot.                                       *)
C4_LsListsLiveEntries ==
    (last.op = "remove_hard_link" /\ last.ret = 0 /\ last.a # <<>>) =>
    /\ Len(ls(Cur, ROOT_INODE)) = Cardinality(LiveSlots(Cur))
    /\ \A i \in LiveSlots(Cur) :
          Occurrences(ls(Cur, ROOT_INODE), DirEntry_name(EntriesOf(Cur)[i])) >= 1

(* C5: every scan skips zeroed slots: a lookup matches live slots only (so *)
(* the empty name of a tombstone is never found) and                       *)
(* get_inode_number_times(n) counts the live slots carrying n, n = 0       *)
(* included.  Stated for the states a successful remove_hard_link of a     *)
(* non-empty name leaves.                                                  *)
C5_ScansSkipTombstones ==
    (last.op = "remove_hard_link" /\ last.ret = 0 /\ last.a # <<>>) =>
    /\ \A name \in Names :
          LET hits == { i \in LiveSlots(Cur) : DirEntry_name(EntriesOf(Cur)[i]) = name }
          IN  find_inode_id_by_name(Cur, ROOT_INODE, name)
                = IF hits = {} THEN None
                  ELSE Some(DirEntry_inode_number(EntriesOf(Cur)[SetMin(hits)]))
    /\ \A name \in Names :
          (find(Cur, ROOT_INODE, name) = None)
              = (find_inode_id_by_name(Cur, ROOT_INODE, name) = None)
    /\ \A n \in InodeIds :
          get_inode_number_times(Cur, ROOT_INODE, n)
            = Cardinality({ i \in LiveSlots(Cur) :
                              DirEntry_inode_number(EntriesOf(Cur)[i]) = n })

(* C6: create(name) twice in a row: the first returns a handle, the second *)
(* None; the second allocates no inode and appends no entry, and ls() then *)
(* holds name exactly once.  Any create of a name that resolves is         *)
(* rejected in the same way.                                               *)
C6_DuplicateCreateRejected ==
    [][ (last'.op = "create") =>
          /\ (find_inode_id_by_name(Cur, ROOT_INODE, last'.a) # None) =>
                /\ last'.out = None
                /\ Disk' = Disk
          /\ (find_inode_id_by_name(Cur, ROOT_INODE, last'.a) = None) =>
                /\ last'.out # None
                /\ Occurrences(ls(Cur', ROOT_INODE), last'.a) = 1
          /\ (last.op = "create" /\ last.out # None /\ last.a = last'.a) =>
                /\ last'.out = None
                /\ inode_bitmap' = inode_bitmap
                /\ EntriesOf(Cur') = EntriesOf(Cur)
                /\ Occurrences(ls(Cur', ROOT_INODE), last'.a) = 1 ]_vars

C6_Witness ==
    /\ last.op = "create" /\ last.out = None /\ last.a = F
    /\ Cardinality(inode_bitmap) = 2
    /\ ls(Cur, ROOT_INODE) = <<F>>

(* C7: create_hard_link(name, name) returns -1 for every name, existing or *)
(* not, and leaves the directory's entries and size and the bitmaps (the   *)
(* whole disk) unchanged.                                                  *)
C7_SelfLinkRejected ==
    [][ (last'.op = "create_hard_link" /\ last'.a = last'.b) =>
          /\ last'.ret = -1
          /\ Disk' = Disk ]_vars

C7_Witness ==
    /\ last.op = "create_hard_link" /\ last.a = F /\ last.b = F
    /\ find(Cur, ROOT_INODE, F) # None

(* C8: create_hard_link(old, new) with old not resolving, and              *)
(* remove_hard_link(name) with name not resolving, return -1 and change    *)
(* nothing on disk; sys_linkat and sys_unlinkat do the same.               *)
C8_FailuresMutateNothing ==
    [][ /\ (/\ last'.op = "create_hard_link"
            /\ find_inode_id_by_name(Cur, ROOT_INODE, last'.a) = None)
           => (last'.ret = -1 /\ Disk' = Disk)
        /\ (/\ last'.op = "remove_hard_link"
            /\ find_inode_id_by_name(Cur, ROOT_INODE, last'.a) = None)
           => (last'.ret = -1 /\ Disk' = Disk)
        /\ (/\ last'.op = "sys_linkat"
            /\ find_inode_id_by_name(Cur, ROOT_INODE, translated_str(last'.a)) = None)
           => (last'.ret = -1 /\ Disk' = Disk)
        /\ (/\ last'.op = "sys_unlinkat"
            /\ find_inode_id_by_name(Cur, ROOT_INODE, translated_str(last'.a)) = None)
           => (last'.ret = -1 /\ Disk' = Disk) ]_vars

C8_Witness ==
    /\ last.op = "remove_hard_link" /\ last.a = G /\ last.ret = -1
    /\ LiveSlots(Cur) # {}

(* C9: a successful create_hard_link(old, new) allocates no inode, changes *)
(* no inode record but the directory's, appends exactly the entry          *)
(* (new, n), n the inode number old resolved to, grows the directory by    *)
(* one DirEntry width and leaves the earlier entries as they were.         *)
C9_LinkAppendsOneEntry ==
    [][ (last'.op = "create_hard_link" /\ last'.ret = 0) =>
          LET n == find_inode_id_by_name(Cur, ROOT_INODE, last'.a)
          IN  /\ n # None
              /\ inode_bitmap' = inode_bitmap
              /\ \A i \in InodeIds \ {ROOT_INODE_ID} : disk_inodes'[i] = disk_inodes[i]
              /\ RootOf(Cur').size = RootOf(Cur).size + DIRENT_SZ
              /\ EntriesOf(Cur') = Append(EntriesOf(Cur), DirEntry_new(last'.b, n[1])) ]_vars

C9_Witness ==
    /\ last.op = "create_hard_link" /\ last.ret = 0
    /\ Len(EntriesOf(Cur)) = MaxDirEntries
    /\ Tombstones(Cur) # {}

(* C10: on a file created empty, whatever was written or truncated since,  *)
(* write_at(O, B) returns len(B), and read_at(O, len(B)) then returns      *)
(* exactly B; the files include ones that need indirect1 and indirect2     *)
(* blocks.                                                                 *)
C10_WriteReadRoundTrip ==
    [][ (last'.op = "write_at") =>
          /\ last'.ret = Len(last'.buf)
          /\ read_at(Cur', last'.h[1], last'.off, Len(last'.buf)) = last'.buf ]_vars

C10_Witness ==
    /\ last.op = "write_at" /\ last.buf = <<8, 9>>
    /\ last.off = INDIRECT1_BOUND * BLOCK_SZ - 1
    /\ read_disk_inode(Cur, last.h[1]).indirect2 # 0
    /\ \E i \in 1 .. BLOCK_SZ : FileBytes(Cur, last.h[1])[i] # 0

(* C11: after the script create f, link f g, unlink f, unlink g, with data  *)
(* written to the file on the way, create(f) returns a handle to a file of *)
(* size zero: read_at returns no byte at any offset.                       *)
C11_RecreateIsFresh ==
    [][ (scn.phase = 4 /\ last'.op = "create" /\ last'.a = F) =>
          /\ last'.out # None
          /\ read_disk_inode(Cur', last'.out[1]).size = 0
          /\ \A offset \in 0 .. BLOCK_SZ :
                read_at(Cur', last'.out[1], offset, Len(LongBuf)) = <<>> ]_vars

C11_Witness ==
    /\ last.op = "create" /\ last.a = F /\ last.out # None
    /\ Tombstones(Cur) = {1, 2}
    /\ get_inode_number_times(Cur, ROOT_INODE, 1) = 0
    /\ FileBytes(Cur, HandleOf(1)) = <<7, 8>>
    /\ get_inode_number(last.out[1]) = 2

(* C12: when create, write_at, clear, create_hard_link or remove_hard_link *)
(* returns, no cached block is dirty.                                      *)
C12_NoDirtyBlockAtReturn ==
    (last.op \in {"create", "write_at", "clear", "create_hard_link",
                  "remove_hard_link"})
        => dirty = {}

(* C13: the root directory's size is a multiple of the DirEntry width and  *)
(* never decreases.                                                        *)
C13_DirSizeMultipleOfDirent ==
    [][ /\ RootOf(Cur').size % DIRENT_SZ = 0
        /\ RootOf(Cur').size >= RootOf(Cur).size ]_vars

C13_Witness ==
    /\ RootOf(Cur).size = MaxDirEntries * DIRENT_SZ
    /\ last.op = "remove_hard_link" /\ last.ret = 0
    /\ Cardinality(Tombstones(Cur)) = 2

(* C19: a successful remove_hard_link(name) (name non-empty) zeroes        *)
(* exactly one slot, the one named name; the size and every other slot are *)
(* unchanged.                                                              *)
C19_UnlinkZeroesOneSlot ==
    [][ (last'.op = "remove_hard_link" /\ last'.ret = 0 /\ last'.a # <<>>) =>
          /\ RootOf(Cur').size = RootOf(Cur).size
          /\ \E i \in DOMAIN EntriesOf(Cur) :
                /\ DirEntry_name(EntriesOf(Cur)[i]) = last'.a
                /\ EntriesOf(Cur')[i] = DirEntry_empty
                /\ \A j \in DOMAIN EntriesOf(Cur) \ {i} :
                      EntriesOf(Cur')[j] = EntriesOf(Cur)[j] ]_vars

(* C20: no two live entries of the directory carry the same name (stated   *)
(* for the non-empty names).                                               *)
C20_LiveNamesUnique ==
    \A i \in LiveSlots(Cur), j \in LiveSlots(Cur) :
        (/\ DirEntry_name(EntriesOf(Cur)[i]) = DirEntry_name(EntriesOf(Cur)[j])
         /\ DirEntry_name(EntriesOf(Cur)[i]) # <<>>)
            => (i = j)

(* C14: get_inode_number inverts get_disk_inode_pos: the handle built at   *)
(* get_disk_inode_pos(i) reports i, for every inode id i; sys_fstat        *)
(* reports that number as ino.                                             *)
C14_InodeNumberInvertsPos ==
    /\ \A i \in 0 .. MaxInodeId :
          get_inode_number(Inode_new(get_disk_inode_pos(i).block_id,
                                     get_disk_inode_pos(i).block_offset)) = i
    /\ (last.op = "sys_fstat" /\ last.h # None) =>
          /\ last.ret = 0
          /\ last.out[1].ino = get_inode_number(last.h[1])
          /\ get_disk_inode_pos(last.out[1].ino)
               = [block_id |-> last.h[1].block_id,
                  block_offset |-> last.h[1].block_offset]

C14_Witness ==
    /\ last.op = "sys_fstat" /\ last.ret = 0
    /\ last.out[1].ino = 2
    /\ last.h[1].block_offset = 2 * INODE_SIZE

(* C15: sys_fstat on an open file returns 0 with nlink = the number of     *)
(* live root entries carrying the file's inode number: 1 after create,     *)
(* one more after each successful link to the file, one less after each    *)
(* successful unlink of one of its names (names non-empty).                *)
C15_FstatNlink ==
    [][ /\ \A h \in FileHandles' :
              /\ sys_fstat(Cur', Some(h)).ret = 0
              /\ sys_fstat(Cur', Some(h)).out[1].nlink
                   = Cardinality({ i \in LiveSlots(Cur') :
                        DirEntry_inode_number(EntriesOf(Cur')[i])
                            = get_inode_number(h) })
        /\ (last'.op = "create" /\ last'.out # None) =>
              sys_fstat(Cur', last'.out).out[1].nlink = 1
        /\ (last'.op = "create_hard_link" /\ last'.ret = 0
                /\ last'.a # <<>> /\ last'.b # <<>>) =>
              sys_fstat(Cur', find(Cur, ROOT_INODE, last'.a)).out[1].nlink
                = sys_fstat(Cur, find(Cur, ROOT_INODE, last'.a)).out[1].nlink + 1
        /\ (last'.op = "remove_hard_link" /\ last'.ret = 0 /\ last'.a # <<>>) =>
              sys_fstat(Cur', find(Cur, ROOT_INODE, last'.a)).out[1].nlink
                = sys_fstat(Cur, find(Cur, ROOT_INODE, last'.a)).out[1].nlink - 1 ]_vars

(* C16: no operation asks for the allocator lock while its own task holds  *)
(* it: whenever a task stands before an fs.lock() the lock is free or held *)
(* by the other task, and no call ends spinning on its own lock.           *)
C16_NoReacquire ==
    \A t \in Tasks :
        /\ pc[t].at # "self_deadlock"
        /\ pc[t].at \in AcquireLabels => fs_lock # t

\* remove_hard_link has taken the lock a second time, for find(name)
C16_Witness ==
    /\ pc[1].op = "remove_hard_link" /\ pc[1].at = "find" /\ fs_lock = 1
    /\ pc[2].at = "lock"

(* C17: lock ordering: a step that takes a block cache lock is run only by *)
(* a task that holds the allocator lock for the operation in progress.     *)
C17_BlockLockUnderAllocatorLock ==
    \A t \in Tasks :
        (pc[t].at \notin Stopped /\ pc[t].op \in {"create_hard_link", "remove_hard_link"}
            /\ takes_block_lock(pc[t].op, pc[t].at)) => fs_lock = t

(* C18: under any interleaving of two tasks no remove_hard_link aborts on  *)
(* find(name).unwrap(), and of two overlapping remove_hard_link(name) on a *)
(* name that had a single entry only one returns 0.                        *)
C18_LinkOpsAtomic ==
    [][ \A t \in Tasks :
          /\ pc'[t].at # "panicked"
          /\ (pc[t].op = "remove_hard_link" /\ pc[t].at = "zero" /\ pc'[t].at = "idle")
                => ~(pc[t].ov /\ pc[t].n0 = 1) ]_vars

\* data blocks taken from the allocator and not given back, other than the
\* root directory's
BlocksHeldByFiles(d) == Cardinality(d.db) - total_blocks(RootOf(d).size)

(* C21: with one file on the device, after every write_at and clear the    *)
(* blocks taken from the allocator for the file number total_blocks(size); *)
(* a write takes blocks_num_needed(new size) blocks, none when the file    *)
(* does not grow; the assertion of clear holds in every state; clear       *)
(* leaves size 0 and frees every block the file held.                      *)
C21_BlocksMatchSize ==
    [][ \A h \in FileHandles' :
          /\ BlocksHeldByFiles(Cur') = total_blocks(read_disk_inode(Cur', h).size)
          /\ clear(Cur', h).ok
          /\ (last'.op = "write_at" /\ h \in FileHandles) =>
                Cardinality(data_bitmap') - Cardinality(data_bitmap)
                  = IF last'.off + Len(last'.buf) < read_disk_inode(Cur, h).size
                    THEN 0
                    ELSE total_blocks(last'.off + Len(last'.buf))
                           - total_blocks(read_disk_inode(Cur, h).size)
          /\ (last'.op = "clear") =>
                /\ read_disk_inode(Cur', h).size = 0
                /\ BlocksHeldByFiles(Cur') = 0
                /\ Cardinality(data_bitmap) - Cardinality(data_bitmap')
                     = total_blocks(read_disk_inode(Cur, h).size) ]_vars

\* a clear has just freed the blocks of a file; more written blocks are free
\* than a file without second-level blocks can hold
C21_Witness ==
    /\ last.op = "clear"
    /\ BlocksHeldByFiles(Cur) = 0
    /\ Cardinality({ b \in DOMAIN data_blocks :
            /\ b - data_area_start_block \notin data_bitmap
            /\ data_blocks[b] # Zeros(BLOCK_SZ) }) > 5

\* the queue q without the task t
Without(q, t) == SelectSeq(q, LAMBDA u : u # t)
Queued(t) == \E i \in 1 .. Len(ready_queue) : ready_queue[i] = t

C23_FetchEmptyIsNone ==
    [][ (current = None /\ ready_queue = <<>>) => ~kernel_panicked' ]_vars

====
